---- MODULE Spec2Model ----
(***************************************************************************)
(* Model of site_to_pdf.py (class SiteToPDF): page discovery, link         *)
(* resolution, start-page selection, page ordering and the convert loop.   *)
(*                                                                         *)
(* Paths and hrefs are character strings, as in the program; the string    *)
(* and path operations of Python (startswith, endswith, lstrip, split,     *)
(* lower, pathlib's join / parent / name / resolve) are defined below by    *)
(* what they do on the characters.                                         *)
(***************************************************************************)
EXTENDS Integers, Sequences, FiniteSets, TLC

VARIABLES
    files,          \* the regular files on disk (absolute path strings)
    listing,        \* the files in the order the filesystem lists them
    unreadable,     \* files whose open() raises
    anchors,        \* file -> its <a href> elements in document order
    hasNav,         \* file -> whether it holds a navigation container
    max_pages,      \* self.max_pages; 0 stands for None (both are falsy)
    include_toc,    \* self.include_toc
    browser_type,   \* self.browser_type
    html_files,     \* self.html_files
    page_info,      \* self.page_info, a sequence of records in insertion order
    visited_pages,  \* self.visited_pages
    start_page,     \* build_page_tree's start_page
    queue,          \* build_page_tree's queue
    ordered_pages,  \* build_page_tree's ordered_pages
    pc,             \* the calls and loop positions still to run, first one next
    r_page,         \* _resolve_link's current_page argument
    r_link,         \* _resolve_link's link argument
    r_out,          \* the value a method returned
    idx,            \* convert's loop counter i over page_order
    pdf_files,      \* convert's pdf_files
    calls,          \* the html_to_pdf and merge_pdfs calls made, with their results
    merged          \* the units merge_pdfs wrote to the output

vars == <<files, listing, unreadable, anchors, hasNav, max_pages, include_toc,
          browser_type, html_files, page_info, visited_pages, start_page,
          queue, ordered_pages, pc, r_page, r_link, r_out, idx, pdf_files,
          calls, merged>>

\* Python's None
None == "<None>"

(***************************************************************************)
(* Strings                                                                 *)
(***************************************************************************)
StartsWith(s, p) == Len(s) >= Len(p) /\ SubSeq(s, 1, Len(p)) = p

EndsWith(s, p) == Len(s) >= Len(p) /\ SubSeq(s, Len(s) - Len(p) + 1, Len(s)) = p

\* p in s
Contains(s, p) == \E i \in 1..(Len(s) - Len(p) + 1) : SubSeq(s, i, i + Len(p) - 1) = p

\* str.lstrip(chars): every leading character that is in chars is removed
RECURSIVE LStrip(_, _)
LStrip(s, chars) ==
    IF s # "" /\ SubSeq(s, 1, 1) \in chars THEN LStrip(Tail(s), chars) ELSE s

\* s.split(c)[0]
RECURSIVE SplitFirst(_, _)
SplitFirst(s, c) ==
    IF s = "" \/ SubSeq(s, 1, 1) = c THEN ""
    ELSE SubSeq(s, 1, 1) \o SplitFirst(Tail(s), c)

\* s.split(c): the pieces between the occurrences of c
RECURSIVE SplitAcc(_, _, _)
SplitAcc(s, c, cur) ==
    IF s = "" THEN <<cur>>
    ELSE IF SubSeq(s, 1, 1) = c THEN <<cur>> \o SplitAcc(Tail(s), c, "")
    ELSE SplitAcc(Tail(s), c, cur \o SubSeq(s, 1, 1))

Split(s, c) == SplitAcc(s, c, "")

UpperChars == "ABCDEFGHIJKLMNOPQRSTUVWXYZ"
LowerChars == "abcdefghijklmnopqrstuvwxyz"

LowerChar(c) ==
    IF \E i \in 1..Len(UpperChars) : SubSeq(UpperChars, i, i) = c
    THEN LET i == CHOOSE j \in 1..Len(UpperChars) : SubSeq(UpperChars, j, j) = c
         IN  SubSeq(LowerChars, i, i)
    ELSE c

\* str.lower()
RECURSIVE Lower(_)
Lower(s) == IF s = "" THEN "" ELSE LowerChar(SubSeq(s, 1, 1)) \o Lower(Tail(s))

(***************************************************************************)
(* pathlib: a Path is kept as the string str() gives for it.  All paths of *)
(* the program are absolute (httrack_dir is resolved in __init__).         *)
(***************************************************************************)
RECURSIVE DropDots(_)
DropDots(ps) ==
    IF ps = <<>> THEN <<>>
    ELSE IF Head(ps) \in {"", "."} THEN DropDots(Tail(ps))
    ELSE <<Head(ps)>> \o DropDots(Tail(ps))

\* Path(s).parts without the anchor: empty and "." components are dropped
Parts(s) == DropDots(Split(s, "/"))

RECURSIVE Render(_)
Render(ps) == IF ps = <<>> THEN "" ELSE "/" \o Head(ps) \o Render(Tail(ps))

\* str(Path) of an absolute path with these parts
PathStr(ps) == IF ps = <<>> THEN "/" ELSE Render(ps)

\* base / rel
PathJoin(base, rel) ==
    IF StartsWith(rel, "/") THEN PathStr(Parts(rel))
    ELSE PathStr(Parts(base) \o Parts(rel))

\* Path(p).parent
Parent(p) ==
    LET ps == Parts(p)
    IN  IF ps = <<>> THEN "/" ELSE PathStr(SubSeq(ps, 1, Len(ps) - 1))

\* Path(p).name
Name(p) == LET ps == Parts(p) IN IF ps = <<>> THEN "" ELSE ps[Len(ps)]

RECURSIVE Collapse(_, _)
Collapse(ps, acc) ==
    IF ps = <<>> THEN acc
    ELSE IF Head(ps) = ".."
         THEN Collapse(Tail(ps), IF acc = <<>> THEN acc ELSE SubSeq(acc, 1, Len(acc) - 1))
         ELSE Collapse(Tail(ps), acc \o <<Head(ps)>>)

\* Path(p).resolve() on a tree without symbolic links
ResolvePath(p) == PathStr(Collapse(Parts(p), <<>>))

\* Path(p).is_file()
IsFile(p) == p \in files

\* Path(p).exists() for a path in the form str() gives: a regular file, or a
\* directory on the way to one
Exists(p) ==
    \/ p \in files
    \/ \E f \in files : StartsWith(f, IF p = "/" THEN p ELSE p \o "/")

\* self.httrack_dir
httrack_dir == "/site"

(***************************************************************************)
(* _resolve_link                                                           *)
(***************************************************************************)
IsExternal(link) == StartsWith(link, "http://") \/ StartsWith(link, "https://")

\* line 253: link.lstrip('./')
StripLeading(link) == LStrip(link, {".", "/"})

_resolve_link(current_page, link0) ==
    LET current_dir == Parent(current_page)
        link        == StripLeading(link0)
        linked0     == IF StartsWith(link, "/")
                       THEN PathJoin(httrack_dir, LStrip(link, {"/"}))
                       ELSE PathJoin(current_dir, link)
        linked1     == IF EndsWith(link, "/") THEN PathJoin(linked0, "index.html")
                       ELSE linked0
        linked_file == ResolvePath(linked1)
    IN  IF IsExternal(link0) THEN None
        ELSE IF Exists(linked_file) /\ IsFile(linked_file) THEN linked_file
        ELSE None

\* _resolve_page_path
_resolve_page_path(page_path) ==
    IF EndsWith(page_path, "/") /\ Exists(PathJoin(page_path, "index.html"))
    THEN PathJoin(page_path, "index.html")
    ELSE None

(***************************************************************************)
(* find_html_files                                                         *)
(***************************************************************************)
exclude_patterns ==
    <<"hts-cache", "hts-log", "backblue.gif", "fade.gif", "index.html~", "/404">>

Excluded(f) == \E i \in 1..Len(exclude_patterns) : Contains(f, exclude_patterns[i])

\* the files rglob(pattern) yields: those under httrack_dir whose name matches, in
\* the order the filesystem lists them
Globbed(ext) ==
    SelectSeq(listing, LAMBDA f : StartsWith(f, httrack_dir \o "/") /\ EndsWith(f, ext))

\* the sequences that list the elements of S once each
Orderings(S) ==
    {q \in [1..Cardinality(S) -> S] : \A i, j \in 1..Cardinality(S) : i # j => q[i] # q[j]}

\* lines 64-78: the *.html matches, then the *.htm ones, without the excluded
find_html_files ==
    SelectSeq(Globbed(".html") \o Globbed(".htm"), LAMBDA f : ~Excluded(f))

(***************************************************************************)
(* find_start_page                                                         *)
(***************************************************************************)
index_names ==
    <<"index.html", "index.htm", "home.html", "home.htm",
      "default.html", "default.htm", "main.html", "main.htm">>

\* a slip in the scan of min: a later element with an equal key replaces the best
RECURSIVE MinIndexFromLast(_, _, _)
MinIndexFromLast(keys, i, best) ==
    IF i > Len(keys) THEN best
    ELSE MinIndexFromLast(keys, i + 1, IF keys[i] <= keys[best] THEN i ELSE best)

\* Python's min(seq, key=...): the first element whose key no other undercuts.
\* keys[i] is the key of seq[i]; the scan keeps the index of the best so far.
RECURSIVE MinIndexFrom(_, _, _)
MinIndexFrom(keys, i, best) ==
    IF i > Len(keys) THEN best
    ELSE MinIndexFrom(keys, i + 1, IF keys[i] < keys[best] THEN i ELSE best)

PyMin(seq, keys) == seq[MinIndexFrom(keys, 2, 1)]

\* Python's sorted(seq, key=...): stable, an element goes after its equals.
\* InsertByKey places index i into an index list already sorted by keys.
RECURSIVE InsertByKey(_, _, _)
InsertByKey(sorted, i, keys) ==
    IF sorted = <<>> THEN <<i>>
    ELSE IF keys[i] < keys[Head(sorted)] THEN <<i>> \o sorted
    ELSE <<Head(sorted)>> \o InsertByKey(Tail(sorted), i, keys)

RECURSIVE SortedIndices(_, _)
SortedIndices(n, keys) ==
    IF n = 0 THEN <<>> ELSE InsertByKey(SortedIndices(n - 1, keys), n, keys)

PySorted(seq, keys) ==
    LET order == SortedIndices(Len(seq), keys)
    IN  [k \in 1..Len(seq) |-> seq[order[k]]]

\* len(x.relative_to(self.httrack_dir).parts)
RelParts(f) == Len(Parts(f)) - Len(Parts(httrack_dir))

\* line 146: 'index' in f.name.lower()
IsIndexNamed(f) == Contains(Lower(Name(f)), "index")

find_start_page ==
    LET found == {i \in 1..Len(index_names) : Exists(httrack_dir \o "/" \o index_names[i])}
        index_files == SelectSeq(html_files, IsIndexNamed)
    IN  IF found # {}
        THEN httrack_dir \o "/" \o index_names[CHOOSE i \in found : \A j \in found : i <= j]
        ELSE IF index_files # <<>>
             THEN PyMin(index_files, [i \in 1..Len(index_files) |-> Len(index_files[i])])
        ELSE IF html_files # <<>>
             THEN PySorted(html_files, [i \in 1..Len(html_files) |-> RelParts(html_files[i])])[1]
        ELSE None

(***************************************************************************)
(* analyze_page_structure                                                  *)
(***************************************************************************)
\* urllib.parse.unquote on the escapes that occur in the hrefs of the model
RECURSIVE Unquote(_)
Unquote(s) ==
    IF s = "" THEN ""
    ELSE IF Len(s) >= 3 /\ SubSeq(s, 1, 3) \in {"%2E", "%2e"}
         THEN "." \o Unquote(SubSeq(s, 4, Len(s)))
    ELSE IF Len(s) >= 3 /\ SubSeq(s, 1, 3) \in {"%2F", "%2f"}
         THEN "/" \o Unquote(SubSeq(s, 4, Len(s)))
    ELSE SubSeq(s, 1, 1) \o Unquote(Tail(s))

\* line 106
CleanHref(href) == Unquote(SplitFirst(SplitFirst(href, "#"), "?"))

\* line 108
KeepsHref(href) ==
    href # "" /\ (EndsWith(href, ".html") \/ EndsWith(href, ".htm") \/ EndsWith(href, "/"))

\* the elements of links (lines 102-109), as the set that set(links) builds
PageLinks(f) ==
    {CleanHref(anchors[f][i].href) : i \in
        {j \in 1..Len(anchors[f]) : KeepsHref(CleanHref(anchors[f][j].href))}}

\* the record of one page (lines 115-123); list(set(links)) lists the set in
\* the order of the string hashes, which differs from run to run
PageRecords(f) ==
    {[path |-> f, links |-> l, depth |-> RelParts(f) - 1] : l \in Orderings(PageLinks(f))}

\* the registries the loop of lines 87-126 can build over the files fs: a file
\* whose open() raises is logged and left out
RECURSIVE Registries(_)
Registries(fs) ==
    IF fs = <<>> THEN {<<>>}
    ELSE IF Head(fs) \in unreadable THEN Registries(Tail(fs))
    ELSE {<<rec>> \o rest : rec \in PageRecords(Head(fs)), rest \in Registries(Tail(fs))}

\* self.page_info.keys(), in insertion order
Keys(info) == [i \in 1..Len(info) |-> info[i].path]

InSeq(x, seq) == \E i \in 1..Len(seq) : seq[i] = x

\* self.page_info[page]['links']
LinksOf(info, page) == info[CHOOSE i \in 1..Len(info) : info[i].path = page].links

(***************************************************************************)
(* _extract_sidebar_order                                                  *)
(***************************************************************************)
\* a slip in the walk: a target already in the order is appended again
RECURSIVE SidebarWalkRepeating(_, _, _)
SidebarWalkRepeating(index_page, as, ordered) ==
    IF as = <<>> THEN ordered
    ELSE LET href == Head(as).href
             linked_page == _resolve_link(index_page, href)
             skip == \/ ~Head(as).nav
                     \/ href = ""
                     \/ IsExternal(href)
                     \/ StartsWith(href, "#")
                     \/ linked_page = None
         IN  SidebarWalkRepeating(index_page, Tail(as),
                                  IF skip THEN ordered ELSE Append(ordered, linked_page))

\* lines 231-237: the sidebar links of the page, resolved and appended once each
RECURSIVE SidebarWalk(_, _, _)
SidebarWalk(index_page, as, ordered) ==
    IF as = <<>> THEN ordered
    ELSE LET href == Head(as).href
             linked_page == _resolve_link(index_page, href)
             skip == \/ ~Head(as).nav
                     \/ href = ""
                     \/ IsExternal(href)
                     \/ StartsWith(href, "#")
                     \/ linked_page = None
                     \/ InSeq(linked_page, ordered)
         IN  SidebarWalk(index_page, Tail(as),
                         IF skip THEN ordered ELSE Append(ordered, linked_page))

_extract_sidebar_order(index_page) ==
    IF ~IsFile(index_page) \/ index_page \in unreadable THEN <<>>
    ELSE IF hasNav[index_page] THEN SidebarWalk(index_page, anchors[index_page], <<index_page>>)
    ELSE <<>>

(***************************************************************************)
(* build_page_tree                                                         *)
(***************************************************************************)
Capped(n) == max_pages # 0 /\ ~(n < max_pages)

\* lines 175-177: the registry pages the sidebar order lacks, appended
RECURSIVE AppendMissing(_, _)
AppendMissing(ordered, keys) ==
    IF keys = <<>> THEN ordered
    ELSE AppendMissing(IF InSeq(Head(keys), ordered) THEN ordered
                       ELSE Append(ordered, Head(keys)), Tail(keys))

\* a slip in the append: the pages the traversal visited are appended too
RECURSIVE AppendEvery(_, _)
AppendEvery(ordered, keys) ==
    IF keys = <<>> THEN ordered
    ELSE AppendEvery(IF ~Capped(Len(ordered)) THEN Append(ordered, Head(keys)) ELSE ordered,
                     Tail(keys))

\* lines 208-211: the same under the cap
RECURSIVE AppendUnvisited(_, _)
AppendUnvisited(ordered, keys) ==
    IF keys = <<>> THEN ordered
    ELSE AppendUnvisited(IF ~InSeq(Head(keys), ordered) /\ ~Capped(Len(ordered))
                         THEN Append(ordered, Head(keys)) ELSE ordered, Tail(keys))

\* lines 202-205: the links of the page that resolve to a page not yet visited
RECURSIVE LinkedPages(_, _, _)
LinkedPages(current_page, links, visited) ==
    IF links = <<>> THEN <<>>
    ELSE LET linked_page == _resolve_link(current_page, Head(links))
             rest == LinkedPages(current_page, Tail(links), visited)
         IN  IF linked_page # None /\ linked_page \notin visited
             THEN <<linked_page>> \o rest ELSE rest

(***************************************************************************)
(* The state after __init__ (lines 46-55), before the calls of pc run.     *)
(***************************************************************************)
Constructed(script) ==
    /\ html_files = <<>>
    /\ page_info = <<>>
    /\ visited_pages = {}
    /\ start_page = None
    /\ queue = <<>>
    /\ ordered_pages = <<>>
    /\ pc = script
    /\ r_out = None
    /\ idx = 0
    /\ pdf_files = <<>>
    /\ calls = <<>>
    /\ merged = <<>>

NoPages ==
    /\ unreadable = {}
    /\ anchors = [f \in files |-> <<>>]
    /\ hasNav = [f \in files |-> FALSE]

DefaultOptions ==
    /\ max_pages = 0
    /\ include_toc = TRUE
    /\ browser_type = "chromium"

\* the concatenation of a sequence of strings
RECURSIVE Concat(_)
Concat(q) == IF q = <<>> THEN "" ELSE Head(q) \o Concat(Tail(q))

SeqsUpTo(S, n) == UNION {[1..k -> S] : k \in 0..n}

(***************************************************************************)
(* SpecResolve: _resolve_link applied to a page of the tree and an href.   *)
(***************************************************************************)
MaxPieces == 4

LinkPieces == {"./", "../", "/", ".", "a.html", "guide", "index.html", "http://"}

ResolveFiles ==
    {"/site/index.html", "/site/a.html", "/site/guide/index.html", "/site/guide/a.html"}

InitResolve ==
    /\ files \in {S \in SUBSET ResolveFiles : "/site/index.html" \in S}
    /\ listing = CHOOSE q \in Orderings(files) : TRUE
    /\ NoPages
    /\ DefaultOptions
    /\ r_page \in files
    /\ r_link \in {Concat(q) : q \in SeqsUpTo(LinkPieces, MaxPieces)}
    /\ Constructed(<<"_resolve_link">>)

ResolveLink ==
    /\ pc # <<>> /\ Head(pc) = "_resolve_link"
    /\ r_out' = _resolve_link(r_page, r_link)
    /\ pc' = Tail(pc)
    /\ UNCHANGED <<files, listing, unreadable, anchors, hasNav, max_pages, include_toc,
                   browser_type, html_files, page_info, visited_pages, start_page,
                   queue, ordered_pages, r_page, r_link, idx, pdf_files,
                   calls, merged>>

NextResolve == ResolveLink

SpecResolve == InitResolve /\ [][NextResolve]_vars

\* The rule of the Link Resolver as the specification words it: one leading
\* "./" is dropped; a link that starts with "/" is taken from the root, any other
\* from the directory of the page; a link that ends in "/" gets index.html; the
\* path is normalised and must be a regular file.
RefResolve(fromPage, rawLink) ==
    LET link   == IF StartsWith(rawLink, "./") THEN SubSeq(rawLink, 3, Len(rawLink))
                  ELSE rawLink
        base   == IF StartsWith(link, "/") THEN httrack_dir ELSE Parent(fromPage)
        joined == PathJoin(base, LStrip(link, {"/"}))
        target == ResolvePath(IF EndsWith(link, "/") THEN PathJoin(joined, "index.html")
                              ELSE joined)
    IN  IF IsFile(target) THEN target ELSE None

\* C5: for every page and every raw link without an http/https scheme,
\* _resolve_link returns what the reference rule returns.
C5_ResolveMatchesRule ==
    (pc = <<>> /\ ~IsExternal(r_link)) => r_out = RefResolve(r_page, r_link)

(***************************************************************************)
(* find_html_files as an action; SpecStart: find_html_files, then          *)
(* find_start_page.                                                        *)
(***************************************************************************)
FindHtmlFiles ==
    /\ pc # <<>> /\ Head(pc) = "find_html_files"
    /\ html_files' = find_html_files
    /\ pc' = Tail(pc)
    /\ UNCHANGED <<files, listing, unreadable, anchors, hasNav, max_pages, include_toc,
                   browser_type, page_info, visited_pages, start_page, queue,
                   ordered_pages, r_page, r_link, r_out, idx, pdf_files,
                   calls, merged>>

FindStartPage ==
    /\ pc # <<>> /\ Head(pc) = "find_start_page"
    /\ r_out' = find_start_page
    /\ pc' = Tail(pc)
    /\ UNCHANGED <<files, listing, unreadable, anchors, hasNav, max_pages, include_toc,
                   browser_type, html_files, page_info, visited_pages, start_page,
                   queue, ordered_pages, r_page, r_link, idx, pdf_files,
                   calls, merged>>

MaxStartFiles == 3

StartFiles ==
    {"/site/home.html", "/site/index.htm",
     "/site/guide/index.html", "/site/other/index.html", "/site/d/Index.htm",
     "/site/404/index.html", "/site/reindexing.html",
     "/site/a.html", "/site/b.html", "/site/guide/c.html"}

InitStart ==
    /\ files \in {S \in SUBSET StartFiles : Cardinality(S) <= MaxStartFiles}
    /\ listing \in Orderings(files)
    /\ NoPages
    /\ DefaultOptions
    /\ r_page = None
    /\ r_link = None
    /\ Constructed(<<"find_html_files", "find_start_page">>)

NextStart == FindHtmlFiles \/ FindStartPage

SpecStart == InitStart /\ [][NextStart]_vars

CanonicalNames ==
    <<"index.html", "index.htm", "home.html", "home.htm",
      "default.html", "default.htm", "main.html", "main.htm">>

CanonicalPresent ==
    {i \in 1..Len(CanonicalNames) : Exists(httrack_dir \o "/" \o CanonicalNames[i])}

IndexNamedAt == {i \in 1..Len(html_files) : IsIndexNamed(html_files[i])}

\* position i wins among the positions P of html_files under the key: nothing in
\* P has a smaller key, and nothing before i in P has the same key
WinsAt(i, P, key) ==
    /\ i \in P
    /\ \A j \in P : key[i] <= key[j] /\ (key[j] = key[i] => i <= j)

\* C6: find_start_page returns the first canonical name present under the root;
\* otherwise the index-named discovered file of shortest path string; otherwise
\* the discovered file of fewest segments; otherwise none; ties go to the file
\* first in indexing order.
C6_StartPagePriority ==
    pc = <<>> =>
        IF CanonicalPresent # {}
        THEN \E i \in CanonicalPresent :
                /\ \A j \in CanonicalPresent : i <= j
                /\ r_out = httrack_dir \o "/" \o CanonicalNames[i]
        ELSE IF IndexNamedAt # {}
        THEN \E i \in IndexNamedAt :
                /\ WinsAt(i, IndexNamedAt, [k \in 1..Len(html_files) |-> Len(html_files[k])])
                /\ r_out = html_files[i]
        ELSE IF html_files # <<>>
        THEN \E i \in 1..Len(html_files) :
                /\ WinsAt(i, 1..Len(html_files),
                          [k \in 1..Len(html_files) |-> RelParts(html_files[k])])
                /\ r_out = html_files[i]
        ELSE r_out = None

\* C6 witness: no canonical name is present, two index-named files tie on the
\* length of their path and the one listed first was returned, although a
\* file of fewer segments was discovered too
C6_Witness ==
    /\ pc = <<>>
    /\ CanonicalPresent = {}
    /\ \E i, j \in IndexNamedAt :
          /\ i < j
          /\ Len(html_files[i]) = Len(html_files[j])
          /\ r_out = html_files[i]
    /\ \E k \in 1..Len(html_files) : RelParts(html_files[k]) < RelParts(r_out)

(***************************************************************************)
(* analyze_page_structure and build_page_tree as actions                   *)
(***************************************************************************)
AnalyzePageStructure ==
    /\ pc # <<>> /\ Head(pc) = "analyze_page_structure"
    /\ page_info' \in Registries(html_files)
    /\ pc' = Tail(pc)
    /\ UNCHANGED <<files, listing, unreadable, anchors, hasNav, max_pages, include_toc,
                   browser_type, html_files, visited_pages, start_page, queue,
                   ordered_pages, r_page, r_link, r_out, idx, pdf_files,
                   calls, merged>>

\* lines 165-172: the start page, and the sidebar order taken from it
BuildPlan ==
    LET sp == find_start_page
    IN  [start |-> sp, sidebar |-> IF sp = None THEN <<>> ELSE _extract_sidebar_order(sp)]

\* lines 165-167: no start page
BuildNoStartPage ==
    /\ pc # <<>> /\ Head(pc) = "build_page_tree"
    /\ BuildPlan.start = None
    /\ start_page' = None
    /\ ordered_pages' = html_files
    /\ r_out' = html_files
    /\ pc' = Tail(pc)
    /\ UNCHANGED <<files, listing, unreadable, anchors, hasNav, max_pages, include_toc,
                   browser_type, html_files, page_info, visited_pages, queue,
                   r_page, r_link, idx, pdf_files, calls, merged>>

\* lines 170-177 and 213-214: the sidebar order, then the pages it lacks
BuildSidebarOrder ==
    /\ pc # <<>> /\ Head(pc) = "build_page_tree"
    /\ LET plan == BuildPlan
       IN  /\ plan.start # None
           /\ plan.sidebar # <<>>
           /\ start_page' = plan.start
           /\ ordered_pages' = AppendMissing(plan.sidebar, Keys(page_info))
    /\ r_out' = ordered_pages'
    /\ pc' = Tail(pc)
    /\ UNCHANGED <<files, listing, unreadable, anchors, hasNav, max_pages, include_toc,
                   browser_type, html_files, page_info, visited_pages, queue,
                   r_page, r_link, idx, pdf_files, calls, merged>>

\* lines 178-183: the breadth-first traversal is set up
BuildBfsBegin ==
    /\ pc # <<>> /\ Head(pc) = "build_page_tree"
    /\ LET plan == BuildPlan
       IN  /\ plan.start # None
           /\ plan.sidebar = <<>>
           /\ start_page' = plan.start
           /\ queue' = <<plan.start>>
    /\ ordered_pages' = <<>>
    /\ visited_pages' = {}
    /\ pc' = <<"bfs_loop">> \o Tail(pc)
    /\ UNCHANGED <<files, listing, unreadable, anchors, hasNav, max_pages, include_toc,
                   browser_type, html_files, page_info, r_page, r_link, r_out,
                   idx, pdf_files, calls, merged>>

\* line 185
BfsContinues == queue # <<>> /\ ~Capped(Len(ordered_pages))

\* lines 192-195: the page to visit for the popped path, None to skip it
PageToVisit(popped) ==
    IF Exists(popped) THEN popped ELSE _resolve_page_path(popped)

\* a slip in the loop: the page expanded is not marked visited
BfsIterationUnmarked ==
    /\ pc # <<>> /\ Head(pc) = "bfs_loop"
    /\ BfsContinues
    /\ LET popped == Head(queue)
           current_page == PageToVisit(popped)
       IN  IF popped \in visited_pages \/ current_page = None
           THEN /\ queue' = Tail(queue)
                /\ UNCHANGED <<visited_pages, ordered_pages>>
           ELSE /\ UNCHANGED visited_pages
                /\ ordered_pages' = Append(ordered_pages, current_page)
                /\ queue' = Tail(queue) \o
                      (IF InSeq(current_page, Keys(page_info))
                       THEN LinkedPages(current_page, LinksOf(page_info, current_page),
                                        visited_pages)
                       ELSE <<>>)
    /\ UNCHANGED <<files, listing, unreadable, anchors, hasNav, max_pages, include_toc,
                   browser_type, html_files, page_info, start_page, pc, r_page,
                   r_link, r_out, idx, pdf_files, calls, merged>>

\* lines 186-205: one iteration of the loop
BfsIteration ==
    /\ pc # <<>> /\ Head(pc) = "bfs_loop"
    /\ BfsContinues
    /\ LET popped == Head(queue)
           current_page == PageToVisit(popped)
       IN  IF popped \in visited_pages \/ current_page = None
           THEN /\ queue' = Tail(queue)
                /\ UNCHANGED <<visited_pages, ordered_pages>>
           ELSE /\ visited_pages' = visited_pages \cup {current_page}
                /\ ordered_pages' = Append(ordered_pages, current_page)
                /\ queue' = Tail(queue) \o
                      (IF InSeq(current_page, Keys(page_info))
                       THEN LinkedPages(current_page, LinksOf(page_info, current_page),
                                        visited_pages')
                       ELSE <<>>)
    /\ UNCHANGED <<files, listing, unreadable, anchors, hasNav, max_pages, include_toc,
                   browser_type, html_files, page_info, start_page, pc, r_page,
                   r_link, r_out, idx, pdf_files, calls, merged>>

\* lines 207-214: the loop is left, the unvisited pages are appended
BfsFinish ==
    /\ pc # <<>> /\ Head(pc) = "bfs_loop"
    /\ ~BfsContinues
    /\ ordered_pages' = AppendUnvisited(ordered_pages, Keys(page_info))
    /\ r_out' = ordered_pages'
    /\ pc' = Tail(pc)
    /\ UNCHANGED <<files, listing, unreadable, anchors, hasNav, max_pages, include_toc,
                   browser_type, html_files, page_info, visited_pages, start_page,
                   queue, r_page, r_link, idx, pdf_files, calls, merged>>

(***************************************************************************)
(* Sites: the files of a mirrored site, their anchors and the options.     *)
(***************************************************************************)
\* the sequence of the elements of site that carry the page index p
PageAnchors(site, p) ==
    LET own == SelectSeq(site, LAMBDA a : a[1] = p)
    IN  [i \in 1..Len(own) |-> [href |-> own[i][2], nav |-> own[i][3]]]

\* pages lists the files that may hold anchors; a site of at most n anchors is
\* a sequence of <<page index, href, in the navigation container>>, page by page
SiteAnchors(pages, hrefs, n) ==
    {site \in SeqsUpTo((1..Len(pages)) \X hrefs \X BOOLEAN, n) :
        \A i \in 1..Len(site) : i < Len(site) => site[i][1] <= site[i + 1][1]}

\* the navigation container, when there is one, is on the page navPage, and only
\* an anchor of that page can lie in it
SiteOf(pages, site, navPage, withNav) ==
    /\ \A i \in 1..Len(site) :
          /\ pages[site[i][1]] \in files \ unreadable
          /\ ~Excluded(pages[site[i][1]])
          /\ site[i][3] => (withNav /\ pages[site[i][1]] = navPage)
    /\ anchors = [f \in files |->
                    IF InSeq(f, pages)
                    THEN PageAnchors(site, CHOOSE p \in 1..Len(pages) : pages[p] = f)
                    ELSE <<>>]
    /\ hasNav = [f \in files |-> withNav /\ f = navPage]

(***************************************************************************)
(* The specifications of find_html_files, analyze_page_structure and       *)
(* build_page_tree run in this order on a site under /site.                *)
(***************************************************************************)
Next ==
    \/ FindHtmlFiles
    \/ AnalyzePageStructure
    \/ BuildNoStartPage
    \/ BuildSidebarOrder
    \/ BuildBfsBegin
    \/ BfsIteration
    \/ BfsFinish

MaxCap == 2

TreePages == <<"/site/index.html", "/site/a.html", "/site/b.html", "/site/c.html">>

TreeListing == TreePages \o <<"/site/404.html">>

\* the empty directory, and the site with or without c.html
TreeDisks ==
    {{}} \cup {{"/site/index.html", "/site/a.html", "/site/b.html", "/site/404.html"} \cup S :
                 S \in SUBSET {"/site/c.html"}}

Reverse(seq) == [i \in 1..Len(seq) |-> seq[Len(seq) + 1 - i]]

\* the filesystem lists the directory in one order or in the opposite one
TreeListings(all) ==
    LET there == SelectSeq(all, LAMBDA f : f \in files)
    IN  {there, Reverse(there)}

TreeInit(sites, navs, unreadables, caps) ==
    /\ files \in TreeDisks
    /\ listing \in TreeListings(TreeListing)
    /\ unreadable \in {S \in unreadables : S \subseteq files}
    /\ \E site \in sites, withNav \in navs :
          SiteOf(TreePages, site, "/site/index.html", withNav)
    /\ max_pages \in caps
    /\ r_page = None
    /\ r_link = None

TreeCalls ==
    /\ include_toc = TRUE
    /\ browser_type = "chromium"
    /\ Constructed(<<"find_html_files", "analyze_page_structure", "build_page_tree">>)

\* Spec: any page holds anchors, in the navigation container or not; any one
\* discovered file may be unreadable
MaxAnchors == 2

TreeHrefs == {"index.html", "a.html", "./a.html", "b.html", "c.html", "404.html"}

Init ==
    /\ TreeInit(SiteAnchors(TreePages, TreeHrefs, MaxAnchors), BOOLEAN,
                {{}} \cup {{TreePages[i]} : i \in 1..Len(TreePages)}, 0..MaxCap)
    /\ TreeCalls

Spec == Init /\ [][Next]_vars

\* SpecBfs: every page is readable, none holds a navigation container
MaxBfsAnchors == 3

BfsHrefs == {"index.html", "a.html", "b.html", "c.html", "404.html"}

InitBfs ==
    /\ TreeInit({site \in SiteAnchors(TreePages, BfsHrefs, MaxBfsAnchors) :
                    \A i \in 1..Len(site) : ~site[i][3]},
                {FALSE}, {{}}, 0..MaxCap)
    /\ TreeCalls

NextBfs ==
    \/ FindHtmlFiles
    \/ AnalyzePageStructure
    \/ BuildNoStartPage
    \/ BuildBfsBegin
    \/ BfsIteration
    \/ BfsFinish

SpecBfs == InitBfs /\ [][NextBfs]_vars

\* SpecBfsLive: index.html, a.html and b.html link to one another in any way
\* (cycles, self-links, several links to one target); the loop runs in one
\* thread, so an iteration or the exit that can be taken is taken
LivePages == <<"/site/index.html", "/site/a.html", "/site/b.html">>

LiveHrefs == {"index.html", "a.html", "b.html"}

InitBfsLive ==
    /\ files \in {{}, {LivePages[i] : i \in 1..Len(LivePages)}}
    /\ listing = SelectSeq(LivePages, LAMBDA f : f \in files)
    /\ unreadable = {}
    /\ \E site \in {q \in SiteAnchors(LivePages, LiveHrefs, MaxBfsAnchors) :
                       \A i \in 1..Len(q) : ~q[i][3]} :
          SiteOf(LivePages, site, "/site/index.html", FALSE)
    /\ max_pages \in {0, MaxCap}
    /\ r_page = None
    /\ r_link = None
    /\ TreeCalls

\* weak fairness of BfsIteration, with its enabling condition (line 185) written
\* out: the loop does not stop while its condition holds
BfsIterationFair ==
    \/ []<>(~(pc # <<>> /\ Head(pc) = "bfs_loop" /\ BfsContinues))
    \/ []<><<BfsIteration>>_vars

SpecBfsLive ==
    InitBfsLive /\ [][NextBfs]_vars /\ BfsIterationFair /\ WF_vars(BfsFinish)

\* SpecNav: the anchors are those of index.html, in its navigation container or
\* beside it; c.html may be unreadable; no cap, or the cap MaxCap
MaxNavAnchors == 3

NavHrefs == {"index.html", "a.html", "c.html", "#top", "http://x.org/a.html"}

InitNav ==
    /\ TreeInit(SiteAnchors(<<"/site/index.html">>, NavHrefs, MaxNavAnchors), BOOLEAN,
                {{}, {"/site/c.html"}}, {0, MaxCap})
    /\ TreeCalls

SpecNav == InitNav /\ [][Next]_vars

(***************************************************************************)
(* convert and merge_pdfs.  html_to_pdf and PdfMerger are collaborators:   *)
(* a call of html_to_pdf returns True or False (it catches what the        *)
(* browser raises), merge_pdfs returns True, or False when the merger      *)
(* raises.                                                                 *)
(***************************************************************************)
SupportedBrowsers == {"chromium", "firefox", "webkit"}

Digit(n) == SubSeq("0123456789", n + 1, n + 1)

\* line 518: f"page_{i:04d}.pdf"
PdfName(i) ==
    "page_" \o Digit((i \div 1000) % 10) \o Digit((i \div 100) % 10)
            \o Digit((i \div 10) % 10) \o Digit(i % 10) \o ".pdf"

\* lines 460-473: convert runs the three steps, looking at what each returned
ConvertBegin ==
    /\ pc # <<>> /\ Head(pc) = "convert"
    /\ pc' = <<"find_html_files", "convert_files_found", "analyze_page_structure",
               "build_page_tree", "convert_order_built">> \o Tail(pc)
    /\ UNCHANGED <<files, listing, unreadable, anchors, hasNav, max_pages, include_toc,
                   browser_type, html_files, page_info, visited_pages, start_page,
                   queue, ordered_pages, r_page, r_link, r_out, idx, pdf_files,
                   calls, merged>>

\* lines 465-467: no HTML file was found
ConvertNoFiles ==
    /\ pc # <<>> /\ Head(pc) = "convert_files_found"
    /\ html_files = <<>>
    /\ r_out' = FALSE
    /\ pc' = <<>>
    /\ UNCHANGED <<files, listing, unreadable, anchors, hasNav, max_pages, include_toc,
                   browser_type, html_files, page_info, visited_pages, start_page,
                   queue, ordered_pages, r_page, r_link, idx, pdf_files, calls,
                   merged>>

ConvertFilesFound ==
    /\ pc # <<>> /\ Head(pc) = "convert_files_found"
    /\ html_files # <<>>
    /\ pc' = Tail(pc)
    /\ UNCHANGED <<files, listing, unreadable, anchors, hasNav, max_pages, include_toc,
                   browser_type, html_files, page_info, visited_pages, start_page,
                   queue, ordered_pages, r_page, r_link, r_out, idx, pdf_files,
                   calls, merged>>

\* lines 475-500: the order is looked at, the browser launched, pdf_files set up.
\* What launch or new_page raises is not caught: it leaves convert without a
\* return value, which is the position "raised".
ConvertLaunch ==
    /\ pc # <<>> /\ Head(pc) = "convert_order_built"
    /\ IF ordered_pages = <<>> \/ browser_type \notin SupportedBrowsers
       THEN /\ r_out' = FALSE
            /\ pc' = <<>>
            /\ UNCHANGED <<idx, pdf_files>>
       ELSE \E launched \in BOOLEAN :
               IF launched
               THEN /\ pdf_files' = <<>>
                    /\ idx' = 1
                    /\ pc' = (IF include_toc THEN <<"render_toc">> ELSE <<>>)
                                 \o <<"render_pages">>
                    /\ UNCHANGED r_out
               ELSE /\ pc' = <<"raised">>
                    /\ UNCHANGED <<r_out, idx, pdf_files>>
    /\ UNCHANGED <<files, listing, unreadable, anchors, hasNav, max_pages, include_toc,
                   browser_type, html_files, page_info, visited_pages, start_page,
                   queue, ordered_pages, r_page, r_link, calls, merged>>

\* lines 503-511: the table of contents is rendered
RenderToc ==
    /\ pc # <<>> /\ Head(pc) = "render_toc"
    /\ \E ok \in BOOLEAN :
          /\ calls' = Append(calls, [call |-> "html_to_pdf", input |-> "toc.html", ok |-> ok])
          /\ pdf_files' = IF ok THEN Append(pdf_files, "000_toc.pdf") ELSE pdf_files
    /\ pc' = Tail(pc)
    /\ UNCHANGED <<files, listing, unreadable, anchors, hasNav, max_pages, include_toc,
                   browser_type, html_files, page_info, visited_pages, start_page,
                   queue, ordered_pages, r_page, r_link, r_out, idx, merged>>

\* a slip in the loop: the unit of a page is put in front of pdf_files
RenderPagePrepending ==
    /\ pc # <<>> /\ Head(pc) = "render_pages"
    /\ idx <= Len(ordered_pages)
    /\ \E ok \in BOOLEAN :
          /\ calls' = Append(calls, [call |-> "html_to_pdf", input |-> ordered_pages[idx],
                                     ok |-> ok])
          /\ pdf_files' = IF ok THEN <<PdfName(idx)>> \o pdf_files ELSE pdf_files
    /\ idx' = idx + 1
    /\ UNCHANGED <<files, listing, unreadable, anchors, hasNav, max_pages, include_toc,
                   browser_type, html_files, page_info, visited_pages, start_page,
                   queue, ordered_pages, pc, r_page, r_link, r_out, merged>>

\* lines 514-523: one iteration of the loop over page_order
RenderPage ==
    /\ pc # <<>> /\ Head(pc) = "render_pages"
    /\ idx <= Len(ordered_pages)
    /\ \E ok \in BOOLEAN :
          /\ calls' = Append(calls, [call |-> "html_to_pdf", input |-> ordered_pages[idx],
                                     ok |-> ok])
          /\ pdf_files' = IF ok THEN Append(pdf_files, PdfName(idx)) ELSE pdf_files
    /\ idx' = idx + 1
    /\ UNCHANGED <<files, listing, unreadable, anchors, hasNav, max_pages, include_toc,
                   browser_type, html_files, page_info, visited_pages, start_page,
                   queue, ordered_pages, pc, r_page, r_link, r_out, merged>>

\* a slip after the loop: a run in which a page failed reports failure
ConvertMergeStrict ==
    /\ pc # <<>> /\ Head(pc) = "render_pages"
    /\ idx > Len(ordered_pages)
    /\ IF pdf_files # <<>> /\ \A k \in 1..Len(calls) : calls[k].ok
       THEN \E ok \in BOOLEAN :
               /\ calls' = Append(calls, [call |-> "merge_pdfs", input |-> "", ok |-> ok])
               /\ merged' = IF ok THEN pdf_files ELSE merged
               /\ r_out' = ok
       ELSE /\ r_out' = FALSE
            /\ UNCHANGED <<calls, merged>>
    /\ pc' = Tail(pc)
    /\ UNCHANGED <<files, listing, unreadable, anchors, hasNav, max_pages, include_toc,
                   browser_type, html_files, page_info, visited_pages, start_page,
                   queue, ordered_pages, r_page, r_link, idx, pdf_files>>

\* lines 525-533 and merge_pdfs (535-557): the units are merged in the order of
\* pdf_files; merge_pdfs returns False when the merger raises, and nothing
\* counts as written then
ConvertMerge ==
    /\ pc # <<>> /\ Head(pc) = "render_pages"
    /\ idx > Len(ordered_pages)
    /\ IF pdf_files # <<>>
       THEN \E ok \in BOOLEAN :
               /\ calls' = Append(calls, [call |-> "merge_pdfs", input |-> "", ok |-> ok])
               /\ merged' = IF ok THEN pdf_files ELSE merged
               /\ r_out' = ok
       ELSE /\ r_out' = FALSE
            /\ UNCHANGED <<calls, merged>>
    /\ pc' = Tail(pc)
    /\ UNCHANGED <<files, listing, unreadable, anchors, hasNav, max_pages, include_toc,
                   browser_type, html_files, page_info, visited_pages, start_page,
                   queue, ordered_pages, r_page, r_link, idx, pdf_files>>

\* SpecConvert: convert on a site whose pages hold at most one anchor, with and
\* without a navigation container, a table of contents, a supported browser
ConvertHrefs == {"a.html", "404.html"}

ConvertSites ==
    {site \in SiteAnchors(TreePages, ConvertHrefs, MaxAnchors) :
        \A i, j \in 1..Len(site) : site[i][1] = site[j][1] => i = j}

InitConvert ==
    /\ TreeInit(ConvertSites, BOOLEAN, {{}, {"/site/b.html"}}, 0..MaxCap)
    /\ include_toc \in BOOLEAN
    /\ browser_type \in SupportedBrowsers \cup {"lynx"}
    /\ Constructed(<<"convert">>)

\* convert returns before build_page_tree when no file was found, so the tree
\* is never built without a start page here
NextConvert ==
    \/ ConvertBegin
    \/ FindHtmlFiles
    \/ ConvertNoFiles
    \/ ConvertFilesFound
    \/ AnalyzePageStructure
    \/ BuildSidebarOrder
    \/ BuildBfsBegin
    \/ BfsIteration
    \/ BfsFinish
    \/ ConvertLaunch
    \/ RenderToc
    \/ RenderPage
    \/ ConvertMerge

SpecConvert == InitConvert /\ [][NextConvert]_vars

(***************************************************************************)
(* Properties of build_page_tree                                           *)
(***************************************************************************)
Occurrences(x, seq) == Cardinality({k \in 1..Len(seq) : seq[k] = x})

NoDuplicates(seq) == \A i, j \in 1..Len(seq) : seq[i] = seq[j] => i = j

\* build_page_tree has returned
TreeBuilt == pc = <<>>

\* C1: with a page cap N set, the order build_page_tree returns has at most N
\* elements, whichever strategy produced it.
C1_OrderWithinCap ==
    (TreeBuilt /\ max_pages > 0) => Len(r_out) <= max_pages

\* C2: with no cap and a start page, every key of the registry occurs exactly
\* once in the returned order, under both strategies.
C2_EveryPageOnce ==
    (TreeBuilt /\ max_pages = 0 /\ start_page # None) =>
        \A i \in 1..Len(page_info) : Occurrences(page_info[i].path, r_out) = 1

\* C2 witness: the traversal ran without a cap from a page that links to a.html
\* twice, by two hrefs, and left a registry page to the final append
C2_Witness ==
    /\ TreeBuilt /\ max_pages = 0 /\ start_page # None
    /\ visited_pages # {}
    /\ \E i \in 1..Len(page_info) :
          /\ page_info[i].path = start_page
          /\ InSeq("a.html", page_info[i].links)
          /\ InSeq("./a.html", page_info[i].links)
    /\ \E i \in 1..Len(page_info) : page_info[i].path \notin visited_pages

\* the positions of the anchors of page sp that the navigation order takes:
\* in the container, not empty, not external, not a fragment, and resolvable
NavPositions(sp) ==
    {i \in 1..Len(anchors[sp]) :
        /\ anchors[sp][i].nav
        /\ anchors[sp][i].href # ""
        /\ ~IsExternal(anchors[sp][i].href)
        /\ ~StartsWith(anchors[sp][i].href, "#")
        /\ _resolve_link(sp, anchors[sp][i].href) # None}

\* the start page contains a navigation container that yields an entry
NavYields(sp) ==
    /\ sp # None /\ sp \in files \ unreadable
    /\ hasNav[sp]
    /\ NavPositions(sp) # {}

\* the start page, then the navigation targets in document order
NavDeclared(sp) ==
    <<sp>> \o [k \in 1..Len(anchors[sp]) |->
                IF k \in NavPositions(sp) THEN _resolve_link(sp, anchors[sp][k].href)
                ELSE None]

\* seq without None and without the elements that occurred before
Distinct(seq) ==
    LET keep == {k \in 1..Len(seq) : seq[k] # None /\ \A j \in 1..(k - 1) : seq[j] # seq[k]}
        Nth[n \in 0..Len(seq)] ==
            IF n = 0 THEN 0 ELSE CHOOSE k \in keep : k > Nth[n - 1] /\
                                     \A j \in keep : j > Nth[n - 1] => k <= j
    IN  [n \in 1..Cardinality(keep) |-> seq[Nth[n]]]

NavExpected(sp) ==
    LET declared == Distinct(NavDeclared(sp))
    IN  declared \o SelectSeq(Keys(page_info), LAMBDA key : ~InSeq(key, declared))

\* C3: when the start page holds a navigation container that yields an entry,
\* the breadth-first traversal does not run and the returned order is the start
\* page, the distinct resolved navigation targets in document order, then the
\* remaining registry pages in registry order, whatever the links of the pages.
C3_NavigationOrder ==
    (Len(pc) <= 1 /\ NavYields(find_start_page)) =>
        /\ pc # <<"bfs_loop">>
        /\ queue = <<>> /\ visited_pages = {}
        /\ TreeBuilt => r_out = NavExpected(find_start_page)

\* C3 witness: the container lists c.html then a.html beside an external link
\* or a fragment, the registry lists a.html before b.html before c.html, and the
\* order returned is index.html, c.html, a.html, b.html
C3_Witness ==
    /\ TreeBuilt
    /\ NavYields(start_page)
    /\ \E i \in 1..Len(anchors[start_page]) :
          /\ anchors[start_page][i].nav
          /\ anchors[start_page][i].href \in {"#top", "http://x.org/a.html"}
    /\ Keys(page_info) = <<"/site/index.html", "/site/a.html", "/site/b.html", "/site/c.html">>
    /\ r_out = <<"/site/index.html", "/site/c.html", "/site/a.html", "/site/b.html">>

\* the breadth-first traversal is running or has returned
InBfs == pc = <<"bfs_loop">> \/ (TreeBuilt /\ start_page # None /\ visited_pages # {})

\* C4: in every state of the breadth-first fallback and in its result, the
\* output holds no path twice and every path in it is a key of the registry.
C4_BfsOrderInRegistry ==
    InBfs =>
        /\ NoDuplicates(ordered_pages)
        /\ \A k \in 1..Len(ordered_pages) : InSeq(ordered_pages[k], Keys(page_info))

Hrefs(as) == [i \in 1..Len(as) |-> as[i].href]

\* C7: index.html links to a.html then b.html, a.html links to c.html, there is
\* no navigation container and no cap: the order is index.html, a.html, b.html,
\* c.html.
C7_BfsListedOrder ==
    ( /\ TreeBuilt
      /\ max_pages = 0
      /\ files = {"/site/index.html", "/site/a.html", "/site/b.html", "/site/c.html",
                  "/site/404.html"}
      /\ \A f \in files : ~hasNav[f]
      /\ Hrefs(anchors["/site/index.html"]) = <<"a.html", "b.html">>
      /\ Hrefs(anchors["/site/a.html"]) = <<"c.html">>
      /\ anchors["/site/b.html"] = <<>>
      /\ anchors["/site/c.html"] = <<>> )
    => r_out = <<"/site/index.html", "/site/a.html", "/site/b.html", "/site/c.html">>

\* C8: after indexing, every element of the links of every page record resolves
\* to an existing file under the root.
C8_LinksResolve ==
    \A i \in 1..Len(page_info) : \A k \in 1..Len(page_info[i].links) :
        LET target == _resolve_link(page_info[i].path, page_info[i].links[k])
        IN  target # None /\ StartsWith(target, httrack_dir \o "/")

\* the start page holds a navigation container that yields no entry: no anchor
\* in it resolves to a file other than the start page
NavEmpty(sp) ==
    /\ sp # None /\ sp \in files \ unreadable
    /\ hasNav[sp]
    /\ \A i \in NavPositions(sp) : _resolve_link(sp, anchors[sp][i].href) = sp

\* the files the links of the record of page sp resolve to, sp itself left out
LinkTargets(sp) ==
    LET links == LinksOf(page_info, sp)
    IN  {_resolve_link(sp, links[k]) : k \in 1..Len(links)} \ {None, sp}

\* C11: when the navigation container of the start page yields no entry,
\* build_page_tree falls back to the breadth-first traversal: the traversal
\* visits the start page, and with no cap the pages the start page links to
\* come right after it in the returned order.
C11_EmptyNavFallsBack ==
    (TreeBuilt /\ NavEmpty(start_page)) =>
        /\ start_page \in visited_pages
        /\ max_pages = 0 =>
              /\ Len(r_out) > Cardinality(LinkTargets(start_page))
              /\ {r_out[k] : k \in 2..(Cardinality(LinkTargets(start_page)) + 1)}
                    = LinkTargets(start_page)

\* the number of links of the records of the pages the traversal has expanded
RECURSIVE LinksExpanded(_)
LinksExpanded(ordered) ==
    IF ordered = <<>> THEN 0
    ELSE Len(LinksOf(page_info, Head(ordered))) + LinksExpanded(Tail(ordered))

\* each page is marked visited and put in the order once, and the queue holds
\* no more than the start page and the links of the pages expanded so far
ExpandedOnce ==
    /\ NoDuplicates(ordered_pages)
    /\ visited_pages = {ordered_pages[k] : k \in 1..Len(ordered_pages)}
    /\ Len(queue) <= 1 + LinksExpanded(ordered_pages)

\* C12: on every registry and link graph, with cycles, self-links and several
\* links to one target, the breadth-first loop ends and build_page_tree returns
\* a finite order; until then each page is marked visited and expanded at most
\* once and the queue stays bounded by the links of the expanded pages.
C12_BfsTerminates ==
    /\ (pc = <<"bfs_loop">>) ~> (TreeBuilt /\ NoDuplicates(r_out))
    /\ [](pc = <<"bfs_loop">> => ExpandedOnce)

\* the traversal has returned on a graph with a cycle between index.html and
\* a.html, a self-link of a.html, and two links to a.html
C12_Witness ==
    /\ TreeBuilt /\ max_pages = 0
    /\ start_page = "/site/index.html"
    /\ Hrefs(anchors["/site/index.html"]) = <<"a.html">>
    /\ Hrefs(anchors["/site/a.html"]) = <<"a.html", "index.html">>
    /\ {"/site/index.html", "/site/a.html"} \subseteq visited_pages

(***************************************************************************)
(* Properties of convert                                                   *)
(***************************************************************************)
ConvertDone == pc = <<>> /\ r_out \in BOOLEAN

PageCalls == SelectSeq(calls, LAMBDA c : c.call = "html_to_pdf" /\ c.input # "toc.html")

TocCalls == SelectSeq(calls, LAMBDA c : c.call = "html_to_pdf" /\ c.input = "toc.html")

MergeCalls == SelectSeq(calls, LAMBDA c : c.call = "merge_pdfs")

MergeRaised == MergeCalls # <<>> /\ ~MergeCalls[1].ok

\* C9 as stated: convert reports failure only when no document was discovered
\* or no PDF unit was produced; as soon as one unit exists the run succeeds
C9_FailureOnlyWhenEmpty ==
    ConvertDone => (r_out = FALSE <=> (html_files = <<>> \/ pdf_files = <<>>))

\* C9: convert reports failure exactly when no document was discovered, the
\* browser type is not supported, no PDF unit was produced, or the merge of the
\* units raised; a page that failed to render never fails the run of itself
C9_FailureCauses ==
    ConvertDone =>
        (r_out = FALSE <=> \/ html_files = <<>>
                           \/ browser_type \notin SupportedBrowsers
                           \/ pdf_files = <<>>
                           \/ MergeRaised)

\* a run that succeeded although a page and the table of contents failed to render
C9_Witness ==
    /\ ConvertDone /\ r_out = TRUE
    /\ \E k \in 1..Len(PageCalls) : ~PageCalls[k].ok
    /\ TocCalls # <<>> /\ ~TocCalls[1].ok
    /\ \E f \in unreadable : IsFile(f)

RECURSIVE UnitsOf(_, _)
UnitsOf(pageCalls, i) ==
    IF i > Len(pageCalls) THEN <<>>
    ELSE (IF pageCalls[i].ok THEN <<PdfName(i)>> ELSE <<>>) \o UnitsOf(pageCalls, i + 1)

\* C10: the table of contents, when enabled and rendered, is the first unit;
\* the pages are rendered in page order, each page that rendered adds its unit
\* after those of the pages before it, and the merge writes the units in
\* that order
C10_UnitsInPageOrder ==
    /\ Len(PageCalls) <= Len(ordered_pages)
    /\ \A k \in 1..Len(PageCalls) : PageCalls[k].input = ordered_pages[k]
    /\ Len(TocCalls) <= 1
    /\ TocCalls # <<>> => include_toc /\ calls[1] = TocCalls[1]
    /\ (pc # <<>> /\ Head(pc) = "render_pages") => (include_toc <=> TocCalls # <<>>)
    /\ pdf_files = (IF TocCalls # <<>> /\ TocCalls[1].ok THEN <<"000_toc.pdf">> ELSE <<>>)
                       \o UnitsOf(PageCalls, 1)
    /\ MergeCalls # <<>> =>
          /\ Len(PageCalls) = Len(ordered_pages)
          /\ MergeCalls[1].ok => merged = pdf_files
    /\ (ConvertDone /\ r_out) => merged = pdf_files /\ merged # <<>>

\* a merged output of the table of contents and two pages around one that failed
C10_Witness ==
    /\ ConvertDone /\ r_out = TRUE
    /\ merged = <<"000_toc.pdf", PdfName(1), PdfName(3)>>
    /\ Len(PageCalls) >= 3 /\ ~PageCalls[2].ok

====
